---- MODULE Spec2Model ----
(***************************************************************************)
(* GoPray: prayer-time reminder scheduler.                                 *)
(*                                                                         *)
(* The model follows the latest revision of the program                    *)
(* (src/unnamed/part_001, lines 633-1272): getPrayerDurations (planner),   *)
(* runMain (reschedule), the waiter goroutines started by runMain, muezzin *)
(* (dispatch), the countdown goroutine of onReady and onExit.              *)
(*                                                                         *)
(* Time is counted in abstract units: a day has DayLen units, a reminder   *)
(* offset of k "minutes" is k units, the countdown goroutine sleeps one    *)
(* unit.  clock is the absolute instant (UTC); the local wall clock is     *)
(* clock + tz.                                                             *)
(*                                                                         *)
(* Specifications:                                                         *)
(*   Spec      the program: main, onReady, onExit, the waiters, the        *)
(*             countdown goroutine, the clock and the user's config edits  *)
(*   FairSpec  Spec with the fairness the Go scheduler gives               *)
(*   PlanSpec  getPrayerDurations applied to every timetable,              *)
(*             configuration and time of day within the bounds             *)
(*   RaceSpec  runMain invoked by MaxCallers goroutines at once, statement *)
(*             by statement                                                *)
(***************************************************************************)
EXTENDS Integers, Sequences, FiniteSets, TLC

VARIABLES
    clock,            \* time.Now(), absolute (UTC) instant in units
    tz,               \* offset of the local zone from UTC, in units
    pc,               \* position of main(): "start", "tray", "running", "exited", "crashed"
    ctx,              \* var ctx context.Context (0 = nil, else a context id)
    cancel,           \* var cancel context.CancelFunc (0 = nil, else the context it cancels)
    parent,           \* parent[c]: parent of context c (0 = context.Background())
    cancelCalled,     \* contexts whose own cancel function has been invoked
    doneAt,           \* doneAt[c]: instant at which c.Done() was closed (-1 = open)
    prayer_times,     \* var prayer_times PrayerTimes
    times_file,       \* prayer_times.json on disk
    config,           \* var config Config
    config_file,      \* config.json on disk
    prayer_durations, \* var prayer_durations []PrayerDuration
    next_prayer,      \* var next_prayer PrayerDuration
    waiters,          \* the goroutines started by runMain, in spawn order
    ticker,           \* the countdown goroutine of onReady
    calls,            \* the runMain invocations that run step by step, per caller
    plan              \* history: the inputs and result of the last getPrayerDurations call

vars == <<clock, tz, pc, ctx, cancel, parent, cancelCalled, doneAt, prayer_times,
          times_file, config, config_file, prayer_durations, next_prayer, waiters,
          ticker, calls, plan>>

----------------------------------------------------------------------------
(* Bounds of the model *)

\* half a day in units: the "3:04 PM" clock has hours 1..HalfLen in each half
HalfLen == 2
\* largest reminder offset a configuration of the model uses
MaxOffset == 2
\* the clock stops advancing this long after the second UTC day has begun
Horizon == 1
\* number of contexts (generations) one run may create
MaxGen == 3
\* a goroutine that can run does so before the clock is this far past the instant at
\* which it became able to
MaxLag == 1
\* muezzin (notification, sound, command) returns before the clock is this far past the
\* latest instant at which the waiter could enter it
MaxPlay == 1

\* the number of goroutines that invoke runMain at the same time
MaxCallers == 2

DayLen == 2 * HalfLen

\* the program starts during UTC day 1; the clock stops at MaxClock
MaxClock == 2 * DayLen + Horizon

----------------------------------------------------------------------------
(* Data model *)

\* the prayers, in the order of the enumeration (defaultConfig lists them so)
PrayerNames == <<"Fajr", "Sunrise", "Zuhr", "Asr", "Maghrib", "Isha">>

\* position of a prayer name in the enumeration
NameIndex(n) == CHOOSE i \in 1..Len(PrayerNames) : PrayerNames[i] = n

\* position of an event kind in before < at < after
KindIndex(k) == CASE k = "before" -> 1 [] k = "at" -> 2 [] k = "after" -> 3 [] OTHER -> 0

\* PrayerDuration{}: the zero value of the struct
ZeroPrayerDuration == [Name |-> "", Duration |-> 0, state |-> ""]

\* A time-of-day string of the timetable, "h:00 AM" / "h:00 PM".  The string is kept as
\* its hour field and its half-day marker; an hour field outside 1..HalfLen stands for a
\* string that time.Parse("3:04 PM", ...) rejects.
TimeString(h, pm) == [h |-> h, pm |-> pm]

\* time.Parse("3:04 PM", s): err
ParseFails(s) == s.h \notin 1..HalfLen

\* time.Parse("3:04 PM", s): the hour of the day, as prayer_time.Hour() reports it
\* (hour HalfLen of the morning is hour 0, hour HalfLen of the afternoon is noon)
ParsedHour(s) == (s.h % HalfLen) + (IF s.pm THEN HalfLen ELSE 0)

\* the local calendar day and time of day of an instant (now.Year/Month/Day, now.Location)
LocalDay(t, z) == (t + z) \div DayLen
LocalTod(t, z) == (t + z) % DayLen
\* the UTC calendar day of an instant
UtcDay(t) == t \div DayLen

\* ReminderConfig{Message, Reminder, Command, Sound}
ReminderConfig(message, reminder, command, sound) ==
    [Message |-> message, Reminder |-> reminder, Command |-> command, Sound |-> sound]

\* ReminderConfig{}: the zero value, which a map lookup of a missing key yields
ZeroReminderConfig == ReminderConfig("", 0, <<>>, "")

\* PrayerConfig{ReminderConfig, Before, After}; the embedded ReminderConfig is field At
PrayerConfig(at, before, after) == [At |-> at, Before |-> before, After |-> after]

\* config[name]: the entry of the map, or the zero PrayerConfig when the key is missing
ConfigOf(cfg, name) ==
    IF name \in DOMAIN cfg THEN cfg[name]
    ELSE PrayerConfig(ZeroReminderConfig, ZeroReminderConfig, ZeroReminderConfig)

----------------------------------------------------------------------------
(* getPrayerDurations: the planner *)

\* EventsOf with the "duration > 0" test of the before event left out
EventsOf_BeforeAlways(p, cfg, nowTod) ==
    LET prayer_duration == ParsedHour(p.Time) - nowTod
        before_reminder == ConfigOf(cfg, p.Name).Before.Reminder
        after_reminder == ConfigOf(cfg, p.Name).After.Reminder
    IN  (IF before_reminder > 0
            THEN <<[Name |-> p.Name, Duration |-> prayer_duration - before_reminder,
                    state |-> "before"]>>
            ELSE <<>>)
        \o (IF prayer_duration > 0
            THEN <<[Name |-> p.Name, Duration |-> prayer_duration, state |-> "at"]>>
            ELSE <<>>)
        \o (IF prayer_duration + after_reminder > 0 /\ after_reminder > 0
            THEN <<[Name |-> p.Name, Duration |-> prayer_duration + after_reminder,
                    state |-> "after"]>>
            ELSE <<>>)

\* EventsOf with the "prayer_duration > 0" test of the at event left out
EventsOf_AtAlways(p, cfg, nowTod) ==
    LET prayer_duration == ParsedHour(p.Time) - nowTod
        before_reminder == ConfigOf(cfg, p.Name).Before.Reminder
        after_reminder == ConfigOf(cfg, p.Name).After.Reminder
    IN  (IF prayer_duration - before_reminder > 0 /\ before_reminder > 0
            THEN <<[Name |-> p.Name, Duration |-> prayer_duration - before_reminder,
                    state |-> "before"]>>
            ELSE <<>>)
        \o <<[Name |-> p.Name, Duration |-> prayer_duration, state |-> "at"]>>
        \o (IF prayer_duration + after_reminder > 0 /\ after_reminder > 0
            THEN <<[Name |-> p.Name, Duration |-> prayer_duration + after_reminder,
                    state |-> "after"]>>
            ELSE <<>>)

\* One iteration of the loop over prayer_times.Times: the events prayer p appends.
\* nowTod is the local time of day of time.Now(); the prayer's instant is its parsed
\* hour on today's date, so prayer_duration is the difference of the two times of day.
EventsOf(p, cfg, nowTod) ==
    LET prayer_duration == ParsedHour(p.Time) - nowTod
        before_reminder == ConfigOf(cfg, p.Name).Before.Reminder
        after_reminder == ConfigOf(cfg, p.Name).After.Reminder
    IN  (IF prayer_duration - before_reminder > 0 /\ before_reminder > 0
            THEN <<[Name |-> p.Name, Duration |-> prayer_duration - before_reminder,
                    state |-> "before"]>>
            ELSE <<>>)
        \o (IF prayer_duration > 0
            THEN <<[Name |-> p.Name, Duration |-> prayer_duration, state |-> "at"]>>
            ELSE <<>>)
        \o (IF prayer_duration + after_reminder > 0 /\ after_reminder > 0
            THEN <<[Name |-> p.Name, Duration |-> prayer_duration + after_reminder,
                    state |-> "after"]>>
            ELSE <<>>)

\* the slice the loop has built when it ends: the events of every prayer, in timetable order
RECURSIVE Appended(_, _, _)
Appended(times, cfg, nowTod) ==
    IF times = <<>> THEN <<>>
    ELSE EventsOf(Head(times), cfg, nowTod) \o Appended(Tail(times), cfg, nowTod)

\* the loop returns nil, err at the first time string that does not parse
AnyParseFails(times) == \E i \in 1..Len(times) : ParseFails(times[i].Time)

\* sort.Slice with less = (Duration <): the slice ends sorted by Duration; sort.Slice is
\* not stable, so elements of equal Duration end in any order.  S is the set of indices
\* of evs still to place.
RECURSIVE SortedOrders(_, _)
SortedOrders(evs, S) ==
    IF S = {} THEN {<<>>}
    ELSE LET Mins == {i \in S : \A j \in S : evs[i].Duration <= evs[j].Duration}
         IN  UNION { { <<evs[i]>> \o r : r \in SortedOrders(evs, S \ {i}) } : i \in Mins }

sortSlice(evs) == SortedOrders(evs, 1..Len(evs))

\* the loop after the sort: next_prayer becomes the first "at" element; when there is
\* none the variable keeps its old value
FirstAt(sorted, old) ==
    IF \E i \in 1..Len(sorted) : sorted[i].state = "at"
    THEN sorted[CHOOSE i \in 1..Len(sorted) :
                    /\ sorted[i].state = "at"
                    /\ \A j \in 1..(i - 1) : sorted[j].state # "at"]
    ELSE old

\* getPrayerDurations(prayer_times): the possible results, each with the value it
\* leaves in next_prayer.  time.Now() is taken as one instant for the whole loop.
getPrayerDurations(times, cfg, nowTod, old_next) ==
    IF AnyParseFails(times)
    THEN { [err |-> TRUE, durations |-> <<>>, next |-> old_next] }
    ELSE { [err |-> FALSE, durations |-> s, next |-> FirstAt(s, old_next)] :
             s \in sortSlice(Appended(times, cfg, nowTod)) }

----------------------------------------------------------------------------
(* Timetable, configuration and their files *)

\* runtime.GOOS of the build
GOOS == "linux"

\* getOSCommand(): the screen lock command of the platform
getOSCommand ==
    CASE GOOS = "windows" -> <<"rundll32.exe", "user32.dll,LockWorkStation">>
      [] GOOS = "linux" -> <<"loginctl", "lock-session">>
      [] GOOS = "darwin" -> <<"osascript", "-e", "tell application System Events">>
      [] OTHER -> <<>>

\* a default configuration that locks the screen after Sunrise too
defaultConfig_SunriseLocks ==
    [n \in {"Fajr", "Sunrise", "Zuhr", "Asr", "Maghrib", "Isha"} |->
        PrayerConfig(ReminderConfig("Atha'an", 0, <<>>, "athaan"),
                     IF n = "Zuhr" THEN ReminderConfig("Duhaa prayer", 90, <<>>, "")
                     ELSE IF n = "Maghrib" THEN ReminderConfig("Maghrib soon", 5, <<>>, "")
                     ELSE ZeroReminderConfig,
                     ReminderConfig("Iqa'ama", 15, getOSCommand, ""))]

\* defaultConfig()
defaultConfig ==
    LET screenLocker == getOSCommand
    IN  [n \in {"Fajr", "Sunrise", "Zuhr", "Asr", "Maghrib", "Isha"} |->
          CASE n = "Fajr" ->
                 PrayerConfig(ReminderConfig("Fajr Atha'an", 0, <<>>, "athaan"),
                              ZeroReminderConfig,
                              ReminderConfig("Fajr Iqa'ama", 15, screenLocker, ""))
            [] n = "Sunrise" ->
                 PrayerConfig(ReminderConfig("Sun has risen", 0, <<>>, "athaan"),
                              ZeroReminderConfig,
                              ReminderConfig("Duhaa time started", 20, <<>>, ""))
            [] n = "Zuhr" ->
                 PrayerConfig(ReminderConfig("Zuhr Atha'an", 0, <<>>, "athaan"),
                              ReminderConfig("Duhaa prayer", 90, <<>>, ""),
                              ReminderConfig("Zuhr Iqa'ama", 15, screenLocker, ""))
            [] n = "Asr" ->
                 PrayerConfig(ReminderConfig("Asr Atha'an", 0, <<>>, "athaan"),
                              ZeroReminderConfig,
                              ReminderConfig("Asr Iqa'ama", 15, screenLocker, ""))
            [] n = "Maghrib" ->
                 PrayerConfig(ReminderConfig("Maghrib Atha'an", 0, <<>>, "athaan"),
                              ReminderConfig("Maghrib Atha'an after 5 minutes", 5, <<>>, ""),
                              ReminderConfig("Maghrib Iqa'ama", 5, screenLocker, ""))
            [] OTHER ->
                 PrayerConfig(ReminderConfig("Isha Atha'an", 0, <<>>, "athaan"),
                              ZeroReminderConfig,
                              ReminderConfig("Isha Iqa'ama", 15, screenLocker, ""))]

\* the LastUpdate of a timetable that has none (the empty string)
NoDate == -1

\* time.Now().Format("02-01-2006"): the local calendar date, as a string
FormatDate(t, z) == LocalDay(t, z)

\* time.Parse("02-01-2006", s): err
ParseDateFails(s) == s = NoDate

\* time.Parse("02-01-2006", s): midnight UTC of that date
ParseDate(s) == s * DayLen

\* now.Truncate(24 * time.Hour): the last multiple of 24h of absolute time, which is
\* midnight UTC
Truncate24h(t) == UtcDay(t) * DayLen

\* PrayerTimes{}: the zero value
ZeroPrayerTimes == [LastUpdate |-> NoDate, CityName |-> "", CityID |-> 0, Times |-> <<>>]

\* a file of the configuration directory that is absent
NoFile == [exists |-> FALSE]
\* a file saveJSON has written, or one of the user's that decodes to data
FileOf(data) == [exists |-> TRUE, data |-> data]
\* a file that is there but whose content decoder.Decode cannot decode
GarbledFile == [exists |-> TRUE]
\* readJSON(filename) returns no error: the file opens and decodes
Decodes(file) == file.exists /\ "data" \in DOMAIN file

\* the time string of hour-of-day h
HourString(h) ==
    IF h < HalfLen THEN TimeString(IF h = 0 THEN HalfLen ELSE h, FALSE)
    ELSE TimeString(IF h = HalfLen THEN HalfLen ELSE h - HalfLen, TRUE)

\* a time string that does not parse
BadTimeString == TimeString(0, FALSE)

\* the timetable that lists the prayers names at the hours hs (hour -1: a malformed string)
TableAt(names, hs) ==
    [i \in 1..Len(names) |->
        [Name |-> names[i],
         Time |-> IF hs[i] = -1 THEN BadTimeString ELSE HourString(hs[i])]]

\* a configuration that gives prayer n the offsets b[n] (before) and a[n] (after)
ConfigWith(b, a) ==
    [n \in DOMAIN b |->
        PrayerConfig(ReminderConfig("athaan", 0, <<>>, "athaan"),
                     ReminderConfig("before", b[n], <<>>, ""),
                     ReminderConfig("after", a[n], <<>>, ""))]

\* the prayers of the timetables the planner is tried on, in the order the site lists them
PlanNames == <<"Fajr", "Sunrise">>

\* every timetable over PlanNames: each prayer at any hour of the day, or malformed
AllTables == { TableAt(PlanNames, hs) : hs \in [1..Len(PlanNames) -> (-1)..(DayLen - 1)] }

\* every configuration over PlanNames with offsets 0..MaxOffset
AllConfigs ==
    LET N == {PlanNames[i] : i \in 1..Len(PlanNames)}
    IN  { ConfigWith(b, a) : b \in [N -> 0..MaxOffset], a \in [N -> 0..MaxOffset] }

----------------------------------------------------------------------------
(* The planner on its own: getPrayerDurations applied to every timetable,          *)
(* configuration and time of day of the model                                       *)

\* no getPrayerDurations call has been made yet
NoPlan == [status |-> "none"]

\* the record of one getPrayerDurations call: its inputs, and whether it returned err
PlanRecord(r, times, cfg, now, z, gen) ==
    [status |-> IF r.err THEN "err" ELSE "ok", times |-> times, config |-> cfg,
     now |-> now, nowTod |-> LocalTod(now, z), gen |-> gen]

InitPlan ==
    /\ clock \in DayLen..(2 * DayLen - 1)
    /\ tz = 0
    /\ pc = "start"
    /\ ctx = 0
    /\ cancel = 0
    /\ parent = <<>>
    /\ cancelCalled = {}
    /\ doneAt = <<>>
    /\ \E tt \in AllTables :
          prayer_times = [ZeroPrayerTimes EXCEPT !.Times = tt,
                                                 !.LastUpdate = FormatDate(clock, 0)]
    /\ times_file = NoFile
    /\ config \in AllConfigs
    /\ config_file = NoFile
    /\ prayer_durations = <<>>
    /\ next_prayer = ZeroPrayerDuration
    /\ waiters = <<>>
    /\ ticker = [pc |-> "none", wakeAt |-> 0]
    /\ calls = <<>>
    /\ plan = NoPlan

\* prayer_durations, err = getPrayerDurations(prayer_times)
PlanCall ==
    /\ pc = "start"
    /\ \E r \in getPrayerDurations(prayer_times.Times, config, LocalTod(clock, tz),
                                   next_prayer) :
          /\ prayer_durations' = r.durations
          /\ next_prayer' = r.next
          /\ plan' = PlanRecord(r, prayer_times.Times, config, clock, tz, 0)
    /\ pc' = "planned"
    /\ UNCHANGED <<clock, tz, calls, ctx, cancel, parent, cancelCalled, doneAt, prayer_times,
                   times_file, config, config_file, waiters, ticker>>

NextPlan == PlanCall

PlanSpec == InitPlan /\ [][NextPlan]_vars

----------------------------------------------------------------------------
(* Properties of the planner *)

\* the events of prayer_durations that belong to prayer name n
EventsNamed(n) ==
    { i \in 1..Len(prayer_durations) : prayer_durations[i].Name = n }

\* the kinds of event prayer_durations holds for prayer name n
KindsNamed(n) == { prayer_durations[i].state : i \in EventsNamed(n) }

\* a prayer of the planned timetable whose instant today is at or before now
Passed(p) == ParsedHour(p.Time) <= plan.nowTod

\* element i of the plan comes before element j in the order fire time, prayer name, kind
OrderedBefore(a, b) ==
    \/ a.Duration < b.Duration
    \/ /\ a.Duration = b.Duration
       /\ \/ NameIndex(a.Name) < NameIndex(b.Name)
          \/ /\ a.Name = b.Name
             /\ KindIndex(a.state) < KindIndex(b.state)

\* C7: the planned sequence is sorted ascending by fire time, and events of equal fire
\* time stand in PrayerName enumeration order, then in kind order before < at < after.
C7_SortedWithTieBreak ==
    plan.status = "ok" =>
        \A i, j \in 1..Len(prayer_durations) :
            i < j => OrderedBefore(prayer_durations[i], prayer_durations[j])

----------------------------------------------------------------------------
(* Contexts: context.WithCancel, cancel(), ctx.Done() *)

\* c is context d or one of its descendants (0 is context.Background())
RECURSIVE InSubtree(_, _, _)
InSubtree(par, c, d) ==
    IF c = d THEN TRUE
    ELSE IF c = 0 THEN FALSE
    ELSE InSubtree(par, par[c], d)

\* c.Done() is closed
IsDone(da, c) == c # 0 /\ da[c] # -1

\* cancel() of context c at instant now: closes Done of c and of every descendant that
\* is still open; a second call changes nothing
CancelEffect(par, da, c, now) ==
    [d \in DOMAIN da |-> IF da[d] = -1 /\ InSubtree(par, d, c) THEN now ELSE da[d]]

\* doneAt after "if cancel != nil { cancel() }"
Cleanup(par, da, cncl, now) ==
    IF cncl # 0 THEN CancelEffect(par, da, cncl, now) ELSE da

\* context.WithCancel(parentCtx): Done of the new context; a child of a context that is
\* already done is done from the start
WithCancel(da, parentCtx, now) == IF IsDone(da, parentCtx) THEN now ELSE -1

----------------------------------------------------------------------------
(* What the environment can hand to the program *)

\* the cities getCityName can report
Cities == {"Mecca"}

\* getCityID(city): the geoname id of a city
CityIdOf(city) == IF city = "Mecca" THEN 104515 ELSE 109223

\* the prayers of the timetables the running program is given
TableNames == <<"Fajr">>

\* the timetables the site can serve: Fajr at hour 1, or a malformed time
SiteTables == { TableAt(TableNames, <<1>>), TableAt(TableNames, <<-1>>) }

\* the timetable of the prayer_times.json an earlier run has left: Fajr at hour 2
SavedTable == TableAt(TableNames, <<2>>)

\* the config.json a user starts the program with: a before and an after reminder
UserConfigs == { ConfigWith([n \in {"Fajr"} |-> 1], [n \in {"Fajr"} |-> 1]) }

\* the config.json a user saves while the program runs: both reminders disabled
EditedConfigs == { ConfigWith([n \in {"Fajr"} |-> 0], [n \in {"Fajr"} |-> 0]) }

\* the zones the program can run in
Zones == {-1, 0, 1}

\* how the update of the timetable in runMain can go
FetchOutcomes == {"cityNameErr", "cityIdErr", "timesErr", "saveErr", "ok"}

----------------------------------------------------------------------------
(* runMain: the reschedule *)

\* the variables runMain and the goroutines it starts work on
schedVars == <<ctx, cancel, parent, cancelCalled, doneAt, prayer_times, times_file,
               config, config_file, prayer_durations, next_prayer, waiters, plan>>

\* readJSON[PrayerTimes](prayertimes_path): the value read (the zero value on error)
ReadTimes(file) == IF Decodes(file) THEN file.data ELSE ZeroPrayerTimes

\* the test of a runMain that looks at the read error only
NeedsUpdate_ReadErrorOnly(file, now, z) == ~Decodes(file)

\* "if err != nil || prayer_times.LastUpdate != time.Now().Format(...)"
NeedsUpdate(file, now, z) ==
    \/ ~Decodes(file)
    \/ ReadTimes(file).LastUpdate # FormatDate(now, z)

\* the update block going on to the planning when the timetable could not be saved
UpdateTimes_IgnoreSaveError(read, file, fo, city, tt, now, z) ==
    LET cityId == IF city = read.CityName THEN read.CityID ELSE CityIdOf(city)
        fetched == [LastUpdate |-> FormatDate(now, z), CityName |-> city,
                    CityID |-> cityId, Times |-> tt]
    IN  CASE fo = "cityNameErr" -> [returned |-> TRUE, times |-> read, file |-> file]
          [] fo = "cityIdErr" -> [returned |-> TRUE, times |-> read, file |-> file]
          [] fo = "timesErr" -> [returned |-> TRUE, times |-> ZeroPrayerTimes, file |-> file]
          [] fo = "saveErr" -> [returned |-> FALSE, times |-> fetched, file |-> file]
          [] OTHER -> [returned |-> FALSE, times |-> fetched, file |-> FileOf(fetched)]

\* The update block of runMain: read is the timetable just read from disk, fo how the
\* fetch goes, city and tt what the services answer.  The result says whether runMain
\* returned inside the block, and gives prayer_times and the file as the block leaves them.
UpdateTimes(read, file, fo, city, tt, now, z) ==
    LET cityId == IF city = read.CityName THEN read.CityID ELSE CityIdOf(city)
        fetched == [LastUpdate |-> FormatDate(now, z), CityName |-> city,
                    CityID |-> cityId, Times |-> tt]
    IN  CASE fo = "cityNameErr" -> [returned |-> TRUE, times |-> read, file |-> file]
          [] fo = "cityIdErr" -> [returned |-> TRUE, times |-> read, file |-> file]
          [] fo = "timesErr" -> [returned |-> TRUE, times |-> ZeroPrayerTimes, file |-> file]
          [] fo = "saveErr" -> [returned |-> TRUE, times |-> fetched, file |-> file]
          [] OTHER -> [returned |-> FALSE, times |-> fetched, file |-> FileOf(fetched)]

\* Spawn with each timer started only when the waiter before it has fired
Spawn_Sequential(ws, g, durs, cfg, now) ==
    ws \o [i \in 1..Len(durs) |->
             [ctx |-> g, p |-> durs[i],
              fireAt |-> now + durs[i].Duration
                           + (IF i > 1 THEN durs[i - 1].Duration ELSE 0),
              st |-> "waiting", late |-> FALSE, reminder |-> -1,
              rc |-> ZeroReminderConfig, step |-> "", log |-> <<>>,
              offset |-> CASE durs[i].state = "before" ->
                                ConfigOf(cfg, durs[i].Name).Before.Reminder
                           [] durs[i].state = "after" ->
                                ConfigOf(cfg, durs[i].Name).After.Reminder
                           [] OTHER -> 0]]

\* the goroutines "go func(ctx, p)" started for the elements of durs, appended to ws;
\* offset is the Reminder the event was planned from, reminder the Reminder of the
\* ReminderConfig the waiter hands to muezzin (-1 until it does), rc that ReminderConfig,
\* step where the waiter is inside muezzin, log what muezzin has done so far
Spawn(ws, g, durs, cfg, now) ==
    ws \o [i \in 1..Len(durs) |->
             [ctx |-> g, p |-> durs[i], fireAt |-> now + durs[i].Duration,
              st |-> "waiting", late |-> FALSE, reminder |-> -1,
              rc |-> ZeroReminderConfig, step |-> "", log |-> <<>>,
              offset |-> CASE durs[i].state = "before" ->
                                ConfigOf(cfg, durs[i].Name).Before.Reminder
                           [] durs[i].state = "after" ->
                                ConfigOf(cfg, durs[i].Name).After.Reminder
                           [] OTHER -> 0]]

\* runMain from "prayer_times, err = readJSON(...)" to "prayer_durations, err =
\* getPrayerDurations(prayer_times)": the ways this part can end at instant now.
\* returned: runMain returned before planning; fetch: how the update of the timetable
\* went ("fresh": none was needed); cfgRead: config was assigned;
\* r: what getPrayerDurations gave.
Planned(now) ==
    LET read == ReadTimes(times_file)
        \* config, err = readJSON[Config](config_path), else the default
        cfg == IF Decodes(config_file) THEN config_file.data ELSE defaultConfig
        NoResult == [err |-> TRUE, durations |-> <<>>, next |-> next_prayer]
        Ends(fo, city, tt, cfgSaved) ==
            LET upd == IF fo = "fresh"
                       THEN [returned |-> FALSE, times |-> read, file |-> times_file]
                       ELSE UpdateTimes(read, times_file, fo, city, tt, now, tz)
            IN  \* getCityID is called only when the city differs from the saved one
                IF fo = "cityIdErr" /\ city = read.CityName
                THEN {}
                ELSE IF upd.returned
                THEN { [returned |-> TRUE, fetch |-> fo, times |-> upd.times, tfile |-> upd.file,
                        cfgRead |-> FALSE, cfg |-> config, cfile |-> config_file,
                        r |-> NoResult] }
                ELSE IF ~Decodes(config_file) /\ ~cfgSaved
                THEN { [returned |-> TRUE, fetch |-> fo, times |-> upd.times, tfile |-> upd.file,
                        cfgRead |-> TRUE, cfg |-> cfg, cfile |-> config_file,
                        r |-> NoResult] }
                ELSE { [returned |-> FALSE, fetch |-> fo, times |-> upd.times,
                        tfile |-> upd.file,
                        cfgRead |-> TRUE, cfg |-> cfg,
                        cfile |-> IF Decodes(config_file) THEN config_file
                                  ELSE FileOf(defaultConfig),
                        r |-> r] :
                       r \in getPrayerDurations(upd.times.Times, cfg, LocalTod(now, tz),
                                                next_prayer) }
    IN  UNION { Ends(fo, city, tt, cfgSaved) :
                  fo \in { f \in FetchOutcomes \cup {"fresh"} :
                             f = "fresh" <=> ~NeedsUpdate(times_file, now, tz) },
                  city \in Cities,
                  tt \in SiteTables,
                  cfgSaved \in { b \in BOOLEAN : Decodes(config_file) => b } }

\* runMain(parentCtx)
runMain(parentCtx) ==
    /\ Len(parent) < MaxGen
    /\ LET now == clock
           g == Len(parent) + 1
           cleaned == Cleanup(parent, doneAt, cancel, now)
       IN  \* Cleanup, then ctx, cancel = context.WithCancel(parentCtx)
           /\ cancelCalled' = IF cancel # 0 THEN cancelCalled \cup {cancel} ELSE cancelCalled
           /\ parent' = Append(parent, parentCtx)
           /\ doneAt' = Append(cleaned, WithCancel(cleaned, parentCtx, now))
           /\ ctx' = g
           /\ cancel' = g
           /\ \E o \in Planned(now) :
                 /\ prayer_times' = o.times
                 /\ times_file' = o.tfile
                 /\ config' = o.cfg
                 /\ config_file' = o.cfile
                 /\ IF o.returned
                    THEN UNCHANGED <<prayer_durations, next_prayer, waiters, plan>>
                    ELSE /\ prayer_durations' = o.r.durations
                         /\ next_prayer' = o.r.next
                         /\ plan' = PlanRecord(o.r, o.times.Times, o.cfg, now, tz, g)
                         \* for _, p := range prayer_durations { go func(ctx, p) ... }
                         /\ waiters' = Spawn(waiters, g, o.r.durations, o.cfg, now)

----------------------------------------------------------------------------
(* main, onReady, onExit *)

\* the process is running: its goroutines can take steps
Alive == pc \in {"tray", "running", "exiting"}

Init ==
    /\ clock \in DayLen..(2 * DayLen - 1)
    /\ tz \in Zones
    /\ pc = "start"
    /\ ctx = 0
    /\ cancel = 0
    /\ parent = <<>>
    /\ cancelCalled = {}
    /\ doneAt = <<>>
    /\ prayer_times = ZeroPrayerTimes
    /\ times_file \in { NoFile,
                         FileOf([LastUpdate |-> FormatDate(clock, tz), CityName |-> "Mecca",
                                 CityID |-> CityIdOf("Mecca"), Times |-> SavedTable]) }
    /\ config = << >>
    /\ config_file \in {NoFile, GarbledFile} \cup { FileOf(c) : c \in UserConfigs }
    /\ prayer_durations = <<>>
    /\ next_prayer = ZeroPrayerDuration
    /\ waiters = <<>>
    /\ ticker = [pc |-> "none", wakeAt |-> 0]
    /\ calls = <<>>
    /\ plan = NoPlan

\* main: runMain(context.Background())
Start ==
    /\ pc = "start"
    /\ runMain(0)
    /\ pc' = "tray"
    /\ UNCHANGED <<clock, tz, calls, ticker>>

\* onReady: the countdown goroutine is started only when next_prayer is set
onReady ==
    /\ pc = "tray"
    /\ pc' = "running"
    /\ ticker' = IF next_prayer # ZeroPrayerDuration
                 THEN [pc |-> "top", wakeAt |-> 0]
                 ELSE [pc |-> "none", wakeAt |-> 0]
    /\ UNCHANGED <<clock, tz, calls>>
    /\ UNCHANGED schedVars

\* systray.Quit (the Quit item or a signal), then onExit: cancel()
onExit ==
    /\ pc = "running"
    /\ pc' = "exiting"
    /\ cancelCalled' = IF cancel # 0 THEN cancelCalled \cup {cancel} ELSE cancelCalled
    /\ doneAt' = Cleanup(parent, doneAt, cancel, clock)
    /\ UNCHANGED <<clock, tz, calls, ctx, cancel, parent, prayer_times, times_file, config,
                   config_file, prayer_durations, next_prayer, waiters, ticker, plan>>

\* systray.Run returns and main with it: the process and all its goroutines end
ProcessExit ==
    /\ pc = "exiting"
    /\ pc' = "exited"
    /\ UNCHANGED <<clock, tz, calls, ticker>>
    /\ UNCHANGED schedVars

----------------------------------------------------------------------------
(* The waiter goroutines of runMain and muezzin *)

\* select { case <-time.After(p.Duration): ... case <-ctx.Done(): ... }
\* A select whose cases are both ready takes either of them.
TimerReady(w) == clock >= w.fireAt
DoneReady(w) == IsDone(doneAt, w.ctx)

\* which cases the select of waiter w may take, given which are ready
SelectCases(w) ==
    (IF TimerReady(w) THEN {"timer"} ELSE {}) \cup (IF DoneReady(w) THEN {"done"} ELSE {})

\* the Reminder of the ReminderConfig "config[p.Name].Before", "config[p.Name].After"
\* or "config[p.Name].ReminderConfig" that the waiter of event e reads from cfg
ReminderOf(cfg, e) ==
    CASE e.state = "before" -> ConfigOf(cfg, e.Name).Before.Reminder
      [] e.state = "after" -> ConfigOf(cfg, e.Name).After.Reminder
      [] OTHER -> ConfigOf(cfg, e.Name).At.Reminder

\* ReminderConfigOf with the after reminder handed the Before configuration
ReminderConfigOf_AfterIsBefore(cfg, e) ==
    CASE e.state = "before" -> ConfigOf(cfg, e.Name).Before
      [] e.state = "at" -> ConfigOf(cfg, e.Name).At
      [] e.state = "after" -> ConfigOf(cfg, e.Name).Before
      [] OTHER -> ZeroReminderConfig

\* "switch p.state": the ReminderConfig the waiter of event e hands to muezzin
ReminderConfigOf(cfg, e) ==
    CASE e.state = "before" -> ConfigOf(cfg, e.Name).Before
      [] e.state = "at" -> ConfigOf(cfg, e.Name).At
      [] e.state = "after" -> ConfigOf(cfg, e.Name).After
      [] OTHER -> ZeroReminderConfig

\* WaiterFire for waiters that share one flow of control: a timer is served only when
\* no other waiter is inside muezzin
WaiterFire_Serial(i) ==
    /\ Alive
    /\ waiters[i].st = "waiting"
    /\ "timer" \in SelectCases(waiters[i])
    /\ \A j \in 1..Len(waiters) : waiters[j].st # "dispatching"
    /\ waiters' = [waiters EXCEPT ![i].st = "dispatching",
                                  ![i].late = DoneReady(waiters[i]),
                                  ![i].reminder = ReminderOf(config, waiters[i].p),
                                  ![i].rc = ReminderConfigOf(config, waiters[i].p),
                                  ![i].step = "notify"]
    /\ UNCHANGED <<clock, tz, calls, pc, ctx, cancel, parent, cancelCalled, doneAt, prayer_times,
                   times_file, config, config_file, prayer_durations, next_prayer,
                   ticker, plan>>

\* case <-time.After(p.Duration): the waiter enters muezzin with the ReminderConfig it
\* reads from the global config at that moment
WaiterFire(i) ==
    /\ Alive
    /\ waiters[i].st = "waiting"
    /\ "timer" \in SelectCases(waiters[i])
    /\ waiters' = [waiters EXCEPT ![i].st = "dispatching",
                                  ![i].late = DoneReady(waiters[i]),
                                  ![i].reminder = ReminderOf(config, waiters[i].p),
                                  ![i].rc = ReminderConfigOf(config, waiters[i].p),
                                  ![i].step = "notify"]
    /\ UNCHANGED <<clock, tz, calls, pc, ctx, cancel, parent, cancelCalled, doneAt, prayer_times,
                   times_file, config, config_file, prayer_durations, next_prayer,
                   ticker, plan>>

\* case <-ctx.Done(): "Child killed...", return
WaiterKilled(i) ==
    /\ Alive
    /\ waiters[i].st = "waiting"
    /\ "done" \in SelectCases(waiters[i])
    /\ waiters' = [waiters EXCEPT ![i].st = "killed"]
    /\ UNCHANGED <<clock, tz, calls, pc, ctx, cancel, parent, cancelCalled, doneAt, prayer_times,
                   times_file, config, config_file, prayer_durations, next_prayer,
                   ticker, plan>>

\* WaiterFinish with the select inside a loop: the waiter waits for its event again
WaiterFinish_Loop(i) ==
    /\ Alive
    /\ waiters[i].st = "dispatching"
    /\ waiters' = [waiters EXCEPT ![i].st = "waiting"]
    /\ next_prayer' = IF waiters[i].p.state = "at" THEN waiters[i].p ELSE next_prayer
    /\ UNCHANGED <<clock, tz, calls, pc, ctx, cancel, parent, cancelCalled, doneAt, prayer_times,
                   times_file, config, config_file, prayer_durations, ticker, plan>>

\* muezzin returns (what it does in between are the actions of DispatchSpec); an "at"
\* waiter then sets next_prayer = p
WaiterFinish(i) ==
    /\ Alive
    /\ waiters[i].st = "dispatching"
    /\ waiters' = [waiters EXCEPT ![i].st = "finished"]
    /\ next_prayer' = IF waiters[i].p.state = "at" THEN waiters[i].p ELSE next_prayer
    /\ UNCHANGED <<clock, tz, calls, pc, ctx, cancel, parent, cancelCalled, doneAt, prayer_times,
                   times_file, config, config_file, prayer_durations, ticker, plan>>

----------------------------------------------------------------------------
(* The countdown goroutine of onReady *)

\* "err != nil || lastUpdate.Before(time.Now().Truncate(24*time.Hour))"
NeedsRefresh(lastUpdate, now, z) ==
    \/ ParseDateFails(lastUpdate)
    \/ ParseDate(lastUpdate) < Truncate24h(now)

\* top of the loop: refresh when needed, set the title, go to sleep for a minute
TickTop ==
    /\ pc = "running"
    /\ ticker.pc = "top"
    /\ IF NeedsRefresh(prayer_times.LastUpdate, clock, tz)
       THEN runMain(ctx)
       ELSE UNCHANGED schedVars
    /\ ticker' = [pc |-> "sleeping", wakeAt |-> clock + 1]
    /\ UNCHANGED <<clock, tz, calls, pc>>

\* after time.Sleep(time.Minute): next_prayer.Duration = prayer_durations[0].Duration,
\* which panics (and ends the process) when the slice is empty
TickWake ==
    /\ pc = "running"
    /\ ticker.pc = "sleeping"
    /\ clock >= ticker.wakeAt
    /\ IF prayer_durations = <<>>
       THEN /\ pc' = "crashed"
            /\ UNCHANGED <<next_prayer, ticker>>
       ELSE /\ next_prayer' = [next_prayer EXCEPT !.Duration = prayer_durations[1].Duration]
            /\ ticker' = [pc |-> "top", wakeAt |-> 0]
            /\ pc' = pc
    /\ UNCHANGED <<clock, tz, calls, ctx, cancel, parent, cancelCalled, doneAt, prayer_times,
                   times_file, config, config_file, prayer_durations, waiters, plan>>

----------------------------------------------------------------------------
(* The environment *)

\* a goroutine has been able to run for MaxLag already: it runs before time passes
Overdue ==
    \/ \E i \in 1..Len(waiters) :
          /\ waiters[i].st = "waiting"
          /\ \/ clock >= waiters[i].fireAt + MaxLag
             \/ DoneReady(waiters[i]) /\ clock >= doneAt[waiters[i].ctx] + MaxLag
    \/ \E i \in 1..Len(waiters) :
          /\ waiters[i].st = "dispatching"
          /\ clock >= waiters[i].fireAt + MaxLag + MaxPlay
    \/ ticker.pc = "top"
    \/ ticker.pc = "sleeping" /\ clock >= ticker.wakeAt

\* time passes (the process ends right after onExit: no time passes in between)
Tick ==
    /\ pc \in {"tray", "running"}
    /\ clock < MaxClock
    /\ ~Overdue
    /\ clock' = clock + 1
    /\ UNCHANGED <<tz, calls, pc, ticker>>
    /\ UNCHANGED schedVars

\* the user saves another config.json ("Edit config")
EditConfig ==
    /\ pc = "running"
    /\ \E c \in EditedConfigs :
          /\ config_file # FileOf(c)
          /\ config_file' = FileOf(c)
    /\ UNCHANGED <<clock, tz, calls, pc, ctx, cancel, parent, cancelCalled, doneAt, prayer_times,
                   times_file, config, prayer_durations, next_prayer, waiters, ticker, plan>>

Next ==
    \/ Start
    \/ onReady
    \/ onExit
    \/ ProcessExit
    \/ \E i \in 1..Len(waiters) : WaiterFire(i)
    \/ \E i \in 1..Len(waiters) : WaiterKilled(i)
    \/ \E i \in 1..Len(waiters) : WaiterFinish(i)
    \/ TickTop
    \/ TickWake
    \/ Tick
    \/ EditConfig

Spec == Init /\ [][Next]_vars

\* The program with the scheduling the Go runtime gives: main and every goroutine that
\* can run does run, and time passes.  The user (onExit, EditConfig) is under no
\* obligation.
FairSpec ==
    /\ Spec
    /\ WF_vars(Start)
    /\ WF_vars(onReady)
    /\ WF_vars(ProcessExit)
    /\ WF_vars(\E i \in 1..Len(waiters) : WaiterFire(i) \/ WaiterKilled(i))
    /\ WF_vars(\E i \in 1..Len(waiters) : WaiterFinish(i))
    /\ WF_vars(TickTop)
    /\ WF_vars(TickWake)
    /\ WF_vars(Tick)

----------------------------------------------------------------------------
(* runMain invoked by several goroutines at once: its statements interleave *)

Callers == 1..MaxCallers

\* a call at the top of runMain: pc is its position, durs the slice its range loop
\* runs over and i the index of the loop
NewCall == [pc |-> "cleanup", durs |-> <<>>, i |-> 0]

\* the program is running with a fresh timetable and a configuration without before
\* and after reminders on disk; every caller is about to enter runMain
InitRace ==
    /\ clock \in DayLen..(2 * DayLen - 1)
    /\ tz = 0
    /\ pc = "running"
    /\ ctx = 0
    /\ cancel = 0
    /\ parent = <<>>
    /\ cancelCalled = {}
    /\ doneAt = <<>>
    /\ prayer_times = ZeroPrayerTimes
    /\ times_file = FileOf([LastUpdate |-> FormatDate(clock, tz), CityName |-> "Mecca",
                            CityID |-> CityIdOf("Mecca"), Times |-> SavedTable])
    /\ config = << >>
    /\ config_file \in { FileOf(c) : c \in EditedConfigs }
    /\ prayer_durations = <<>>
    /\ next_prayer = ZeroPrayerDuration
    /\ waiters = <<>>
    /\ ticker = [pc |-> "none", wakeAt |-> 0]
    /\ calls = [c \in Callers |-> NewCall]
    /\ plan = NoPlan

\* "if cancel != nil { cancel() }"
RaceCleanup(c) ==
    /\ pc = "running"
    /\ calls[c].pc = "cleanup"
    /\ cancelCalled' = IF cancel # 0 THEN cancelCalled \cup {cancel} ELSE cancelCalled
    /\ doneAt' = Cleanup(parent, doneAt, cancel, clock)
    /\ calls' = [calls EXCEPT ![c].pc = "withCancel"]
    /\ UNCHANGED <<clock, tz, pc, ctx, cancel, parent, prayer_times, times_file, config,
                   config_file, prayer_durations, next_prayer, waiters, ticker, plan>>

\* "ctx, cancel = context.WithCancel(parentCtx)", parentCtx being context.Background()
RaceWithCancel(c) ==
    /\ pc = "running"
    /\ calls[c].pc = "withCancel"
    /\ parent' = Append(parent, 0)
    /\ doneAt' = Append(doneAt, WithCancel(doneAt, 0, clock))
    /\ ctx' = Len(parent) + 1
    /\ cancel' = Len(parent) + 1
    /\ calls' = [calls EXCEPT ![c].pc = "plan"]
    /\ UNCHANGED <<clock, tz, pc, cancelCalled, prayer_times, times_file, config,
                   config_file, prayer_durations, next_prayer, waiters, ticker, plan>>

\* from "prayer_times, err = readJSON(...)" to "prayer_durations, err = getPrayerDurations"
RacePlan(c) ==
    /\ pc = "running"
    /\ calls[c].pc = "plan"
    /\ \E o \in Planned(clock) :
          /\ prayer_times' = o.times
          /\ times_file' = o.tfile
          /\ config' = o.cfg
          /\ config_file' = o.cfile
          /\ IF o.returned
             THEN /\ calls' = [calls EXCEPT ![c].pc = "returned"]
                  /\ UNCHANGED <<prayer_durations, next_prayer, plan>>
             ELSE /\ prayer_durations' = o.r.durations
                  /\ next_prayer' = o.r.next
                  /\ plan' = PlanRecord(o.r, o.times.Times, o.cfg, clock, tz, ctx)
                  /\ calls' = [calls EXCEPT ![c].pc = IF o.r.err THEN "returned"
                                                      ELSE "range"]
    /\ UNCHANGED <<clock, tz, pc, ctx, cancel, parent, cancelCalled, doneAt, waiters,
                   ticker>>

\* "for _, p := range prayer_durations": the range expression is evaluated once
RaceRange(c) ==
    /\ pc = "running"
    /\ calls[c].pc = "range"
    /\ calls' = [calls EXCEPT ![c] = IF prayer_durations = <<>>
                                     THEN [pc |-> "returned", durs |-> <<>>, i |-> 0]
                                     ELSE [pc |-> "spawn", durs |-> prayer_durations,
                                           i |-> 1]]
    /\ UNCHANGED <<clock, tz, pc, ctx, cancel, parent, cancelCalled, doneAt, prayer_times,
                   times_file, config, config_file, prayer_durations, next_prayer,
                   waiters, ticker, plan>>

\* one iteration: "go func(ctx, p) {...}(ctx, p)", ctx being the global at that moment
RaceSpawn(c) ==
    /\ pc = "running"
    /\ calls[c].pc = "spawn"
    /\ waiters' = Spawn(waiters, ctx, <<calls[c].durs[calls[c].i]>>, config, clock)
    /\ calls' = [calls EXCEPT ![c] = IF calls[c].i = Len(calls[c].durs)
                                     THEN [pc |-> "returned", durs |-> <<>>, i |-> 0]
                                     ELSE [calls[c] EXCEPT !.i = calls[c].i + 1]]
    /\ UNCHANGED <<clock, tz, pc, ctx, cancel, parent, cancelCalled, doneAt, prayer_times,
                   times_file, config, config_file, prayer_durations, next_prayer,
                   ticker, plan>>

\* every call has returned
AllReturned == calls # <<>> /\ \A c \in DOMAIN calls : calls[c].pc = "returned"

\* the cancel() that follows the calls: onExit
RaceCancel == AllReturned /\ onExit

NextRace ==
    \/ \E c \in Callers : RaceCleanup(c)
    \/ \E c \in Callers : RaceWithCancel(c)
    \/ \E c \in Callers : RacePlan(c)
    \/ \E c \in Callers : RaceRange(c)
    \/ \E c \in Callers : RaceSpawn(c)
    \/ RaceCancel
    \/ \E i \in 1..Len(waiters) : WaiterFire(i)
    \/ \E i \in 1..Len(waiters) : WaiterKilled(i)
    \/ \E i \in 1..Len(waiters) : WaiterFinish(i)
    \/ Tick

RaceSpec == InitRace /\ [][NextRace]_vars

----------------------------------------------------------------------------
(* muezzin and playMP3: what one waiter does at its fire time *)

\* the sounds embedded with "go:embed assets/*"
Assets == {"athaan"}

\* strings.HasSuffix(filePath, ".mp3"), for the sound names used here
HasMp3Suffix(filePath) == filePath \in {"call.mp3"}

\* how playMP3(filePath) can go: the file does not open, the decoder or the audio
\* device refuses, or the sound is played to its end.  An embedded sound opens and
\* decodes; any other name without the suffix is looked up in assets/ and is not there.
SoundOutcomes(filePath) ==
    IF HasMp3Suffix(filePath) THEN {"openErr", "decodeErr", "deviceErr", "played"}
    ELSE IF filePath \in Assets THEN {"deviceErr", "played"}
    ELSE {"openErr"}

\* one entry of a waiter's log: a step of muezzin, its argument, and how it went
Effect(step, arg, result) == [step |-> step, arg |-> arg, result |-> result]

\* waiter i is inside muezzin at the given step
InMuezzin(i, step) ==
    /\ Alive
    /\ waiters[i].st = "dispatching"
    /\ waiters[i].step = step

\* what a step of muezzin leaves alone besides pc
dispatchFrame == <<clock, tz, calls, ctx, cancel, parent, cancelCalled, doneAt, prayer_times,
                   times_file, config, config_file, prayer_durations, next_prayer,
                   ticker, plan>>

\* muezzinNotify returning from muezzin when the notification fails
muezzinNotify_ReturnOnError(i) ==
    /\ InMuezzin(i, "notify")
    /\ \E result \in {"ok", "failed"} :
          waiters' = [waiters EXCEPT
                        ![i].step = IF waiters[i].rc.Message # "" /\ result = "failed"
                                    THEN "return" ELSE "sound",
                        ![i].log = IF waiters[i].rc.Message # ""
                                   THEN Append(@, Effect("notify", waiters[i].rc.Message,
                                                         result))
                                   ELSE @]
    /\ pc' = pc
    /\ UNCHANGED dispatchFrame

\* muezzinNotify without the test of the message: it notifies always
muezzinNotify_Always(i) ==
    /\ InMuezzin(i, "notify")
    /\ \E result \in {"ok", "failed"} :
          waiters' = [waiters EXCEPT
                        ![i].step = "sound",
                        ![i].log = Append(@, Effect("notify", waiters[i].rc.Message,
                                                    result))]
    /\ pc' = pc
    /\ UNCHANGED dispatchFrame

\* "if len(reminderConfig.Message) > 0 { beeep.Notify(beeep.AppName, Message, getIcon()) }"
\* the error Notify returns is dropped
muezzinNotify(i) ==
    /\ InMuezzin(i, "notify")
    /\ \E result \in {"ok", "failed"} :
          waiters' = [waiters EXCEPT
                        ![i].step = "sound",
                        ![i].log = IF waiters[i].rc.Message # ""
                                   THEN Append(@, Effect("notify", waiters[i].rc.Message,
                                                         result))
                                   ELSE @]
    /\ pc' = pc
    /\ UNCHANGED dispatchFrame

\* playMP3 with the "if err != nil { return }" after the file is opened left out: the
\* deferred file.Close() of a nil file panics
playMP3_NoErrCheck(i) ==
    /\ InMuezzin(i, "sound")
    /\ \E out \in SoundOutcomes(waiters[i].rc.Sound) :
          /\ waiters' = [waiters EXCEPT
                           ![i].step = IF out = "played" THEN "playing" ELSE "command",
                           ![i].log = Append(@, Effect("sound", waiters[i].rc.Sound,
                                                       IF out = "played" THEN "started"
                                                       ELSE out))]
          /\ pc' = IF out = "openErr" THEN "crashed" ELSE pc
    /\ UNCHANGED dispatchFrame

\* playMP3 with the loop "for player.IsPlaying()" left out: it returns once the player
\* has started
playMP3_NoWait(i) ==
    /\ InMuezzin(i, "sound")
    /\ \E out \in SoundOutcomes(waiters[i].rc.Sound) :
          waiters' = [waiters EXCEPT
                        ![i].step = "command",
                        ![i].log = Append(@, Effect("sound", waiters[i].rc.Sound,
                                                    IF out = "played" THEN "started"
                                                    ELSE out))]
    /\ pc' = pc
    /\ UNCHANGED dispatchFrame

\* playMP3(reminderConfig.Sound) from the open of the file to player.Play(): every error
\* makes it return, and muezzin goes on with the command
playMP3(i) ==
    /\ InMuezzin(i, "sound")
    /\ \E out \in SoundOutcomes(waiters[i].rc.Sound) :
          waiters' = [waiters EXCEPT
                        ![i].step = IF out = "played" THEN "playing" ELSE "command",
                        ![i].log = Append(@, Effect("sound", waiters[i].rc.Sound,
                                                    IF out = "played" THEN "started"
                                                    ELSE out))]
    /\ pc' = pc
    /\ UNCHANGED dispatchFrame

\* "for player.IsPlaying() { time.Sleep(100 * time.Millisecond) }" ends: playMP3 returns
playMP3Return(i) ==
    /\ InMuezzin(i, "playing")
    /\ waiters' = [waiters EXCEPT
                     ![i].step = "command",
                     ![i].log = Append(@, Effect("sound", waiters[i].rc.Sound, "played"))]
    /\ pc' = pc
    /\ UNCHANGED dispatchFrame

\* "if len(command) != 0 { err := exec.Command(command[0], command[1:]...).Run() ... }"
\* Run waits for the command to exit; on an error muezzin returns, as it does anyway
muezzinCommand(i) ==
    /\ InMuezzin(i, "command")
    /\ \E result \in {"ok", "failed"} :
          waiters' = [waiters EXCEPT
                        ![i].step = "return",
                        ![i].log = IF waiters[i].rc.Command # <<>>
                                   THEN Append(@, Effect("command", waiters[i].rc.Command,
                                                         result))
                                   ELSE @]
    /\ pc' = pc
    /\ UNCHANGED dispatchFrame

\* muezzin returns to the waiter
muezzinReturn(i) == waiters[i].step = "return" /\ WaiterFinish(i)

\* the sounds a ReminderConfig is tried with: none, the embedded one, a file of the user
Sounds == {"", "athaan", "call.mp3"}

\* the timetable the dispatch is tried on: Sunrise at the first hour of the day, Fajr
\* in the hour after it
DispatchTable == TableAt(<<"Fajr", "Sunrise">>, <<1, 0>>)

\* the configurations the dispatch is tried on: the reminder at Fajr has a message, a
\* sound and a command, or not; the reminder after Sunrise has all three
DispatchConfigs ==
    { [n \in {"Fajr", "Sunrise"} |->
         IF n = "Fajr"
         THEN PrayerConfig(ReminderConfig(message, 0, command, sound),
                           ZeroReminderConfig, ZeroReminderConfig)
         ELSE PrayerConfig(ReminderConfig("Sun has risen", 0, <<>>, "athaan"),
                           ZeroReminderConfig,
                           ReminderConfig("Duhaa time started", 2, getOSCommand,
                                          "call.mp3"))] :
      message \in {"", "Fajr Atha'an"}, command \in {<<>>, getOSCommand},
      sound \in Sounds }

\* the program as onReady leaves it, before its first runMain, with today's timetable
\* on disk
InitDispatch ==
    /\ clock \in DayLen..(2 * DayLen - 1)
    /\ tz = 0
    /\ pc = "running"
    /\ ctx = 0
    /\ cancel = 0
    /\ parent = <<>>
    /\ cancelCalled = {}
    /\ doneAt = <<>>
    /\ prayer_times = ZeroPrayerTimes
    /\ times_file = FileOf([LastUpdate |-> FormatDate(clock, tz), CityName |-> "Mecca",
                            CityID |-> CityIdOf("Mecca"), Times |-> DispatchTable])
    /\ config = << >>
    /\ config_file \in { FileOf(c) : c \in DispatchConfigs }
    /\ prayer_durations = <<>>
    /\ next_prayer = ZeroPrayerDuration
    /\ waiters = <<>>
    /\ ticker = [pc |-> "none", wakeAt |-> 0]
    /\ calls = <<>>
    /\ plan = NoPlan

\* "runMain(context.Background())" of main: the one generation of this specification
DispatchStart ==
    /\ pc = "running"
    /\ parent = <<>>
    /\ runMain(0)
    /\ UNCHANGED <<clock, tz, calls, pc, ticker>>

NextDispatch ==
    \/ DispatchStart
    \/ \E i \in 1..Len(waiters) : WaiterFire(i)
    \/ \E i \in 1..Len(waiters) : muezzinNotify(i)
    \/ \E i \in 1..Len(waiters) : playMP3(i)
    \/ \E i \in 1..Len(waiters) : playMP3Return(i)
    \/ \E i \in 1..Len(waiters) : muezzinCommand(i)
    \/ \E i \in 1..Len(waiters) : muezzinReturn(i)
    \/ Tick

DispatchSpec == InitDispatch /\ [][NextDispatch]_vars

----------------------------------------------------------------------------
(* Properties of the planner inside the program *)

\* the prayers of the planned timetable whose time string parses
WellFormed(times) == SelectSeq(times, LAMBDA p : ~ParseFails(p.Time))

\* C10: a malformed time of day makes the planner skip that prayer alone: the plan is
\* the plan of the remaining prayers of the timetable.
C10_MalformedPrayerSkippedAlone ==
    plan.status # "none" =>
        /\ plan.status = "ok"
        /\ prayer_durations \in sortSlice(Appended(WellFormed(plan.times), plan.config,
                                                   plan.nowTod))

----------------------------------------------------------------------------
(* Properties of the scheduler *)

\* the contexts created so far; each runMain call creates one (one generation)
Generations == 1..Len(parent)

\* waiter i has entered muezzin
Dispatched(i) == waiters[i].st \in {"dispatching", "finished"}

\* the process has ended
Ended == pc \in {"exited", "crashed"}

\* C1: after a second runMain there is exactly one live generation: the generation of
\* ctx is live until its cancel is invoked, none of its waiters ends without
\* dispatching, and no waiter of a discarded generation dispatches.
C1_SecondRescheduleOneLiveGeneration ==
    Len(parent) >= 2 =>
        /\ cancel \notin cancelCalled => ~IsDone(doneAt, ctx)
        /\ \A i \in 1..Len(waiters) :
              waiters[i].ctx = ctx /\ ctx \notin cancelCalled => waiters[i].st # "killed"
        /\ \A i \in 1..Len(waiters) : ~waiters[i].late

\* C2: every reschedule cancels the generation it replaces and starts one that is live:
\* a generation whose own cancel has not been invoked is not done, and none of its
\* waiters ends without dispatching.
C2_RescheduleStartsLiveGeneration ==
    /\ \A c \in Generations : c # ctx => IsDone(doneAt, c)
    /\ \A c \in Generations : c \notin cancelCalled => ~IsDone(doneAt, c)
    /\ \A i \in 1..Len(waiters) :
          waiters[i].ctx \notin cancelCalled => waiters[i].st # "killed"

\* C3: once a generation is cancelled at instant t, a waiter of it whose fire time is
\* later than t never dispatches, and a dispatch that had started by t is not cut short.
C3_CancelStopsLaterWaiters ==
    \A i \in 1..Len(waiters) :
        IsDone(doneAt, waiters[i].ctx) =>
            /\ waiters[i].fireAt > doneAt[waiters[i].ctx] => ~Dispatched(i)
            /\ waiters[i].st = "dispatching" /\ ~waiters[i].late => ~Ended

\* C4: a waiter that is resumed with its timer expired and its generation's
\* cancellation pending does not dispatch when the cancellation came before the expiry.
C4_NoDispatchWhenCancelledBeforeExpiry ==
    \A i \in 1..Len(waiters) :
        waiters[i].late => doneAt[waiters[i].ctx] >= waiters[i].fireAt

\* C8: a before or after reminder whose configured offset is 0 is never planned, and no
\* waiter hands a before or after ReminderConfig whose offset is 0 to muezzin.
C8_DisabledReminderNeverPlanned ==
    /\ plan.status = "ok" =>
          \A i \in 1..Len(prayer_durations) :
              prayer_durations[i].state \in {"before", "after"} =>
                  ReminderOf(plan.config, prayer_durations[i]) > 0
    /\ \A i \in 1..Len(waiters) :
          Dispatched(i) /\ waiters[i].p.state \in {"before", "after"} =>
              waiters[i].reminder > 0

LastStart == 2 * DayLen - 1

\* the calendar day, in UTC and in the local zone, is later than the day of the start
DayChanged ==
    /\ UtcDay(clock) > UtcDay(LastStart)
    /\ LocalDay(clock, tz) > LocalDay(LastStart, tz)

\* C6: in every execution a change of calendar day is eventually followed by a
\* reschedule (a second generation), as long as the program keeps running.
C6_DayChangeEventuallyReschedules ==
    [](pc = "running" /\ DayChanged => <>(Len(parent) >= 2 \/ pc # "running"))

----------------------------------------------------------------------------
(* Properties of the failure handling *)

\* the ways the fetch of the update block fails: getCityName, getCityID, getPrayerTimes
FetchFailures == {"cityNameErr", "cityIdErr", "timesErr"}

\* this step is a runMain call that ends as o does
RunMainStep(o) ==
    /\ Len(parent') = Len(parent) + 1
    /\ prayer_times' = o.times
    /\ times_file' = o.tfile
    /\ config' = o.cfg
    /\ config_file' = o.cfile
    /\ IF o.returned
       THEN prayer_durations' = prayer_durations /\ waiters' = waiters /\ plan' = plan
       ELSE /\ prayer_durations' = o.r.durations
            /\ plan' # plan
            /\ plan'.status = IF o.r.err THEN "err" ELSE "ok"

\* C11: a reschedule whose fetch fails (city name, city id or prayer times) leaves the
\* program with the timetable it had: the one it held, or the one cached on disk.
C11_FetchFailureKeepsTimetable ==
    [][\A o \in Planned(clock) :
          RunMainStep(o) /\ o.fetch \in FetchFailures =>
              \/ prayer_times' = prayer_times
              \/ Decodes(times_file) /\ prayer_times' = ReadTimes(times_file)]_vars

\* runMain ending as o does met a failure: of the fetch, of saving the timetable or the
\* default configuration, or of parsing a time of day
Failed(o) == o.returned \/ o.r.err

\* waiter i of ws waits for its event in a generation that is not cancelled
LiveWaiter(ws, done, i) == ws[i].st = "waiting" /\ ~IsDone(done, ws[i].ctx)

\* C12: no failure terminates the process or leaves it without a schedule: every future
\* event a live waiter waited for before a failed reschedule has a live waiter after
\* it, and the process does not crash on the outcome of a failed planning.
C12_FailureKeepsSchedule ==
    [][/\ \A o \in Planned(clock) :
             RunMainStep(o) /\ Failed(o) =>
                 \A i \in 1..Len(waiters) :
                     LiveWaiter(waiters, doneAt, i) /\ waiters[i].fireAt > clock =>
                         \E j \in 1..Len(waiters') :
                             /\ LiveWaiter(waiters', doneAt', j)
                             /\ waiters'[j].p.Name = waiters[i].p.Name
                             /\ waiters'[j].p.state = waiters[i].p.state
       /\ pc' = "crashed" => plan.status # "err"]_vars

----------------------------------------------------------------------------
(* Properties of the dispatch *)

\* the results of a step of muezzin that are failures
Failures == {"failed", "openErr", "decodeErr", "deviceErr"}

\* a step of muezzin has failed in waiter i
HasFailure(i) == \E k \in 1..Len(waiters[i].log) : waiters[i].log[k].result \in Failures

\* in this step a step of muezzin fails in waiter i
FailedStep(i) ==
    /\ i \in 1..Len(waiters')
    /\ Len(waiters'[i].log) = Len(waiters[i].log) + 1
    /\ waiters'[i].log[Len(waiters'[i].log)].result \in Failures

\* C13: a failure of a step of the dispatch (notification, sound, command) stays inside
\* its waiter: the step that fails cancels no generation, does not end the process and
\* touches no other waiter, and once a waiter has had a failure every other waiter
\* whose fire time has come is still able to dispatch.
C13_DispatchFailureStaysLocal ==
    /\ [][\A i \in 1..Len(waiters) :
            FailedStep(i) =>
                /\ pc' = pc
                /\ doneAt' = doneAt
                /\ cancelCalled' = cancelCalled
                /\ \A j \in 1..Len(waiters) : j # i => waiters'[j] = waiters[j]]_vars
    /\ [](\A i, j \in 1..Len(waiters) :
            HasFailure(i) /\ j # i /\ waiters[j].st = "waiting" /\ TimerReady(waiters[j])
                => Alive /\ ~DoneReady(waiters[j]))

\* a step of muezzin has failed in one waiter, and a sibling with a later fire time has
\* gone through its own dispatch
C13_Witness ==
    \E i, j \in 1..Len(waiters) :
        /\ HasFailure(i)
        /\ waiters[j].ctx = waiters[i].ctx
        /\ waiters[j].fireAt > waiters[i].fireAt
        /\ waiters[j].st = "finished"
        /\ waiters[j].log # <<>>

\* the place of a step in muezzin
StepRank(step) == CASE step = "notify" -> 1 [] step = "sound" -> 2 [] OTHER -> 3

Returned(i) == waiters[i].step = "return"

\* C15: a step that fails does not keep the following steps from running: a dispatch
\* whose notification failed has still called the sound step, and a dispatch whose
\* sound failed (file, decoder or device) has still run its command, if it has one.
C15_FailedStepDoesNotStopTheNext ==
    \A i \in 1..Len(waiters) :
        LET log == waiters[i].log
        IN  Returned(i) =>
              \A k \in 1..Len(log) :
                  /\ log[k].step = "notify" /\ log[k].result = "failed" =>
                        \E l \in (k + 1)..Len(log) : log[l].step = "sound"
                  /\ log[k].step = "sound" /\ log[k].result \in Failures
                        /\ waiters[i].rc.Command # <<>> =>
                        \E l \in (k + 1)..Len(log) : log[l].step = "command"

\* a dispatch whose notification and sound both failed has run its command
C15_Witness ==
    \E i \in 1..Len(waiters) :
        LET log == waiters[i].log
        IN  /\ Returned(i)
            /\ Len(log) = 3
            /\ log[1].step = "notify" /\ log[1].result = "failed"
            /\ log[2].step = "sound" /\ log[2].result \in Failures
            /\ log[3].step = "command"

\* the entries of waiter i's log for the given step
Entries(i, step) == SelectSeq(waiters[i].log, LAMBDA e : e.step = step)

\* C16: a dispatch asks for a notification exactly when the message of its
\* ReminderConfig is not empty, and then with that message; it runs a command exactly
\* when the command list is not empty, and then that command.
C16_NotifyIffMessageCommandIffCommand ==
    \A i \in 1..Len(waiters) :
        Returned(i) =>
            /\ Entries(i, "notify") # <<>> <=> waiters[i].rc.Message # ""
            /\ \A k \in 1..Len(Entries(i, "notify")) :
                  Entries(i, "notify")[k].arg = waiters[i].rc.Message
            /\ Len(Entries(i, "notify")) <= 1
            /\ Entries(i, "command") # <<>> <=> waiters[i].rc.Command # <<>>
            /\ \A k \in 1..Len(Entries(i, "command")) :
                  Entries(i, "command")[k].arg = waiters[i].rc.Command
            /\ Len(Entries(i, "command")) <= 1

\* two dispatches have returned: one with no message and no command, which has asked for
\* nothing but the sound, and one with both, which has notified and run its command
C16_Witness ==
    \E i, j \in 1..Len(waiters) :
        /\ Returned(i) /\ Returned(j)
        /\ waiters[i].rc.Message = "" /\ waiters[i].rc.Command = <<>>
        /\ Entries(i, "notify") = <<>> /\ Entries(i, "command") = <<>>
        /\ waiters[j].rc.Message # "" /\ waiters[j].rc.Command # <<>>
        /\ Entries(j, "notify") # <<>> /\ Entries(j, "command") # <<>>

----------------------------------------------------------------------------
(* Properties of the waiters' timing *)

\* the waiters started by the last planning
PlannedWaiters ==
    IF plan.status = "ok" THEN { i \in 1..Len(waiters) : waiters[i].ctx = plan.gen }
    ELSE {}

\* the instant of prayer name on the day of the last planning: midnight of that day
\* plus the time of day the timetable gives
AtInstant(name) ==
    LET k == CHOOSE k \in 1..Len(plan.times) : plan.times[k].Name = name
    IN  plan.now - plan.nowTod + ParsedHour(plan.times[k].Time)

\* the instant of event e of the last planning: the prayer's instant, moved by the
\* offset of its kind
EventInstant(e) ==
    CASE e.state = "before" ->
             AtInstant(e.Name) - ConfigOf(plan.config, e.Name).Before.Reminder
      [] e.state = "after" ->
             AtInstant(e.Name) + ConfigOf(plan.config, e.Name).After.Reminder
      [] OTHER -> AtInstant(e.Name)

\* C17: every waiter fires at the instant of its own event, counted from the planning
\* instant -- the before reminder at the prayer's instant minus its offset, the prayer
\* at its instant, the after reminder at the instant plus its offset -- whatever the
\* other waiters have done; and no waiter fires before that instant.
C17_WaiterFiresAtItsOwnInstant ==
    /\ [](\A i \in PlannedWaiters : waiters[i].fireAt = EventInstant(waiters[i].p))
    /\ [][\A i \in 1..Len(waiters) :
            waiters[i].st = "waiting" /\ waiters'[i].st = "dispatching"
                => clock >= waiters[i].fireAt]_vars

\* the before reminder and the prayer of one planning have both fired, each at its own
\* instant, and the after reminder still waits for its own
C17_Witness ==
    \E i, j, k \in PlannedWaiters :
        /\ waiters[i].p.state = "before" /\ Dispatched(i)
        /\ waiters[j].p.state = "at" /\ Dispatched(j)
        /\ waiters[k].p.state = "after" /\ waiters[k].st = "waiting"
        /\ waiters[i].fireAt < waiters[j].fireAt
        /\ waiters[j].fireAt < waiters[k].fireAt

\* in this step waiter i's timer fires and it enters muezzin
FireStep(i) ==
    /\ i \in 1..Len(waiters')
    /\ waiters[i].st = "waiting"
    /\ waiters'[i].st = "dispatching"

\* C18: a waiter that fires for kind k of prayer p dispatches the ReminderConfig the
\* configuration gives prayer p for kind k (Before, the prayer's own, After), never
\* that of another kind or of another prayer.
C18_DispatchesItsOwnReminderConfig ==
    [][\A i \in 1..Len(waiters) :
          FireStep(i) =>
              LET e == waiters[i].p
                  own == IF e.Name \in DOMAIN config
                         THEN IF e.state = "before" THEN config[e.Name].Before
                              ELSE IF e.state = "after" THEN config[e.Name].After
                              ELSE config[e.Name].At
                         ELSE ZeroReminderConfig
              IN  waiters'[i].rc = own]_vars

\* the waiters of two prayers and two kinds have both fired, each with its own
\* ReminderConfig, the two being different
C18_Witness ==
    \E i, j \in 1..Len(waiters) :
        /\ Dispatched(i) /\ waiters[i].p.state = "at"
        /\ Dispatched(j) /\ waiters[j].p.state = "after"
        /\ waiters[i].p.Name # waiters[j].p.Name
        /\ waiters[i].rc = ConfigOf(config, waiters[i].p.Name).At
        /\ waiters[j].rc = ConfigOf(config, waiters[j].p.Name).After
        /\ waiters[i].rc # waiters[j].rc
        /\ ConfigOf(config, waiters[i].p.Name).At # ConfigOf(config, waiters[j].p.Name).At

----------------------------------------------------------------------------
(* Properties of next_prayer and the countdown *)

\* the "at" events of a planned sequence, in its order
AtEvents(durs) == SelectSeq(durs, LAMBDA e : e.state = "at")

\* in this step getPrayerDurations has planned without error
PlanningStep == plan' # plan /\ plan'.status = "ok"

\* C19: after a planning next_prayer is the first "at" event of the sorted sequence, and
\* it is absent (the zero PrayerDuration) when the sequence has no "at" event: the
\* next_prayer of an earlier planning is not kept.
C19_NextPrayerIsFirstAtOrAbsent ==
    [][PlanningStep =>
          next_prayer' = IF AtEvents(prayer_durations') # <<>>
                         THEN Head(AtEvents(prayer_durations'))
                         ELSE ZeroPrayerDuration]_vars

\* time.Sleep(time.Minute): the time between two ticks of the countdown goroutine
TickInterval == 1

\* in this step the countdown goroutine wakes from its sleep and sets the Duration it
\* shows at its next tick
WakeStep == ticker.pc = "sleeping" /\ ticker'.pc = "top"

\* C20: from one tick to the next the remaining duration shown for next_prayer goes
\* down by one tick interval, and it stays the duration of the same next_prayer event.
C20_CountdownDecreasesByOneTick ==
    [][WakeStep =>
          next_prayer' = [next_prayer EXCEPT !.Duration = @ - TickInterval]]_vars

----------------------------------------------------------------------------
(* Properties of the refresh check *)

\* in this step the countdown goroutine goes through the top of its loop
TopStep == ticker.pc = "top" /\ ticker'.pc = "sleeping"

\* in this step runMain is called
RunMainCalled == Len(parent') = Len(parent) + 1

\* C21: the tick calls runMain exactly when the date of the timetable the program holds
\* is not today's local date, the test runMain itself uses to refresh: never while the
\* two are equal, always at the first tick after they differ.
C21_TickReschedulesIffDateDiffers ==
    [][TopStep =>
          (RunMainCalled <=> prayer_times.LastUpdate # FormatDate(clock, tz))]_vars

----------------------------------------------------------------------------
(* Properties of the events of one prayer *)

\* the events of one prayer stand in the order before < at < after of their fire times
KindsInOrder(n) ==
    \A i, j \in EventsNamed(n) :
        KindIndex(prayer_durations[i].state) < KindIndex(prayer_durations[j].state)
            => prayer_durations[i].Duration < prayer_durations[j].Duration

\* the prayer names of the planned timetable
PlannedNames == { plan.times[k].Name : k \in 1..Len(plan.times) }

----------------------------------------------------------------------------
(* Properties of the life of a waiter *)

\* what a waiter in state st can be after a step: it fires or is killed once, and
\* after that it only finishes its dispatch
LaterStates(st) ==
    CASE st = "waiting" -> {"waiting", "dispatching", "killed"}
      [] st = "dispatching" -> {"dispatching", "finished"}
      [] OTHER -> {st}

\* C23: an event is dispatched at most once within its generation: a generation has one
\* waiter for each of its events, and a waiter that has fired or has been cancelled
\* never waits or fires again (no retry).
C23_EventDispatchedAtMostOnce ==
    /\ [](\A i, j \in 1..Len(waiters) :
            /\ i # j
            /\ waiters[i].ctx = waiters[j].ctx
            /\ waiters[i].p.Name = waiters[j].p.Name
            => waiters[i].p.state # waiters[j].p.state)
    /\ [][\A i \in 1..Len(waiters) :
            /\ i \in 1..Len(waiters')
            /\ waiters'[i].ctx = waiters[i].ctx
            /\ waiters'[i].p = waiters[i].p
            /\ waiters'[i].st \in LaterStates(waiters[i].st)]_vars

\* in one generation a waiter has dispatched and finished, another has been cancelled,
\* and the program still runs
C23_Witness ==
    /\ pc = "running"
    /\ \E i, j \in 1..Len(waiters) :
          /\ waiters[i].ctx = waiters[j].ctx
          /\ waiters[i].st = "finished"
          /\ waiters[j].st = "killed"
          /\ clock > waiters[i].fireAt

----------------------------------------------------------------------------
(* Properties of the waiters' independence *)

\* C24: starting a schedule starts one waiter per planned event and returns, and the
\* waiters are independent: a waiter whose fire time has come can fire whatever the
\* other waiters are doing, also while one of them is held inside muezzin by a sound
\* or a command.
C24_WaitersAreIndependent ==
    /\ [][PlanningStep =>
            /\ Len(waiters') = Len(waiters) + Len(prayer_durations')
            /\ \A k \in 1..Len(prayer_durations') :
                  /\ waiters'[Len(waiters) + k].p = prayer_durations'[k]
                  /\ waiters'[Len(waiters) + k].st = "waiting"]_vars
    /\ [](\A i \in 1..Len(waiters) :
            Alive /\ waiters[i].st = "waiting" /\ TimerReady(waiters[i])
                => ENABLED WaiterFire(i))

\* a waiter fires at its own fire time while the sound of another waiter is playing
C24_Witness ==
    \E i, j \in 1..Len(waiters) :
        /\ i # j
        /\ waiters[i].st = "dispatching" /\ waiters[i].step = "playing"
        /\ waiters[j].st = "dispatching" /\ waiters[j].step = "notify"
        /\ clock = waiters[j].fireAt
        /\ waiters[i].fireAt < waiters[j].fireAt

----------------------------------------------------------------------------
(* Properties of the shared schedule *)

\* the schedule the goroutines share: the planned events, the generation, next_prayer
snapshot == <<prayer_durations, ctx, cancel, next_prayer>>

\* C25: the schedule (events, generation, next_prayer) is written by runMain only:
\* no step of a waiter and no step of the countdown goroutine outside its runMain call
\* changes next_prayer or the planned events.
C25_OnlyRunMainWritesSnapshot ==
    [][snapshot' # snapshot => RunMainCalled]_vars

----------------------------------------------------------------------------
(* Properties of the configuration and timetable files *)

\* C26: a runMain call that gets as far as the configuration and finds no config.json
\* it can load takes the default configuration, saves it, plans with it and starts the
\* schedule: the absence of the configuration never stops the scheduling.
C26_AbsentConfigDefaultsAndPlans ==
    [][\A o \in Planned(clock) :
          RunMainStep(o) /\ o.cfgRead /\ ~Decodes(config_file) =>
              /\ config' = defaultConfig
              /\ config_file' = FileOf(defaultConfig)
              /\ ~o.returned
              /\ plan' # plan]_vars

\* C27: a runMain call enters the update of the timetable exactly when prayer_times.json
\* cannot be read or its LastUpdate is not today's local date; when the file is readable
\* and dated today the call leaves the file as it is, takes prayer_times from it and
\* plans from its times.
C27_FetchIffUnreadableOrStale ==
    [][\A o \in Planned(clock) :
          RunMainStep(o) =>
              LET stale == \/ ~Decodes(times_file)
                           \/ times_file.data.LastUpdate # FormatDate(clock, tz)
              IN  /\ o.fetch # "fresh" <=> stale
                  /\ ~stale => /\ times_file' = times_file
                               /\ prayer_times' = times_file.data
                               /\ plan' # plan => plan'.times = times_file.data.Times]_vars

\* a schedule planned from the stored timetable, which the site does not serve
C27_Witness ==
    /\ plan.status = "ok"
    /\ Decodes(times_file)
    /\ times_file.data.LastUpdate = FormatDate(plan.now, tz)
    /\ times_file.data.Times = SavedTable
    /\ SavedTable \notin SiteTables
    /\ plan.times = SavedTable
    /\ prayer_times = times_file.data
    /\ Len(prayer_durations) > 0

----------------------------------------------------------------------------
(* The sound of a reminder *)

\* C28: a dispatched reminder whose Sound is empty plays the embedded athaan: the sound
\* step of its muezzin call opens the embedded asset, so it can only end as the asset's
\* playback does (started and played, or refused by the audio device).
C28_EmptySoundPlaysDefaultAthaan ==
    \A i \in 1..Len(waiters) :
        \A k \in 1..Len(waiters[i].log) :
            waiters[i].log[k].step = "sound" /\ waiters[i].log[k].arg = ""
                => waiters[i].log[k].result \in {"started", "played", "deviceErr"}

----------------------------------------------------------------------------
(* config.json edited while the program runs *)

\* C29: a config.json saved while the program runs is not used before a restart: the
\* configuration in use is never one the user saved during the run, and no waiter
\* dispatches a reminder of a schedule planned from such a configuration.
C29_EditedConfigUnusedUntilRestart ==
    /\ config \notin EditedConfigs
    /\ \A i \in 1..Len(waiters) :
          Dispatched(i) /\ plan.status = "ok" /\ waiters[i].ctx = plan.gen
              => plan.config \notin EditedConfigs

----------------------------------------------------------------------------
(* The default configuration *)

\* the shape the default configuration is said to have
DefaultShape(cfg) ==
    /\ DOMAIN cfg = {"Fajr", "Sunrise", "Zuhr", "Asr", "Maghrib", "Isha"}
    /\ \A n \in DOMAIN cfg :
          /\ cfg[n].At.Message # ""
          /\ cfg[n].At.Reminder = 0
          /\ cfg[n].At.Command = <<>>
          /\ cfg[n].Before.Reminder > 0 <=> n \in {"Zuhr", "Maghrib"}
          /\ cfg[n].Before.Command = <<>>
          /\ cfg[n].After.Reminder > 0
          /\ cfg[n].After.Command = IF n = "Sunrise" THEN <<>> ELSE getOSCommand
    /\ cfg["Zuhr"].Before.Reminder = 90
    /\ cfg["Maghrib"].Before.Reminder = 5

\* C30: the configuration a runMain call takes when config.json cannot be loaded has an
\* entry for Fajr, Sunrise, Zuhr, Asr, Maghrib and Isha and no other; each entry has an
\* at message and at offset 0; only Zuhr (90) and Maghrib (5) have a before offset; every
\* entry has an after offset; the screen lock command of the platform is the command of
\* every after reminder but Sunrise's, and of no before or at reminder.
C30_DefaultConfigShape ==
    [][\A o \in Planned(clock) :
          RunMainStep(o) /\ o.cfgRead /\ ~Decodes(config_file)
              => DefaultShape(config')]_vars

\* the defaults have been taken, saved and planned from
C30_Witness ==
    /\ plan.status = "ok"
    /\ plan.config = config
    /\ config_file = FileOf(config)
    /\ DOMAIN config = {"Fajr", "Sunrise", "Zuhr", "Asr", "Maghrib", "Isha"}
    /\ config["Sunrise"].After.Command = <<>>
    /\ config["Fajr"].After.Command = getOSCommand

----------------------------------------------------------------------------
(* next_prayer after its prayer *)

\* the "at" waiters of the schedule in force, by what they have done
AtWaiters(states) ==
    { i \in 1..Len(waiters) :
        /\ waiters[i].ctx = ctx
        /\ waiters[i].p.state = "at"
        /\ waiters[i].st \in states }

\* C31: once an "at" waiter of the schedule in force has fired and its dispatch is over,
\* next_prayer is the earliest "at" event whose waiter has not fired yet, and it is
\* absent (the zero PrayerDuration) when no such event remains: it never names a prayer
\* whose instant has passed.
C31_NextPrayerIsStillAhead ==
    Alive /\ plan.status = "ok" /\ plan.gen = ctx /\ AtWaiters({"finished"}) # {} =>
        IF AtWaiters({"waiting"}) = {}
        THEN next_prayer = ZeroPrayerDuration
        ELSE \E j \in AtWaiters({"waiting"}) :
                 /\ next_prayer.Name = waiters[j].p.Name
                 /\ next_prayer.state = "at"
                 /\ \A k \in AtWaiters({"waiting"}) : waiters[j].fireAt <= waiters[k].fireAt

----------------------------------------------------------------------------
(* The countdown on an empty schedule *)

\* C32: the countdown goroutine never fails: when it wakes from its sleep it does not
\* index an empty prayer_durations, so the process is never brought down by it, whether
\* the last planning found no event ahead or returned an error.
C32_TickSafeOnEmptySchedule ==
    ~(pc = "crashed" /\ ticker.pc = "sleeping" /\ prayer_durations = <<>>)

----------------------------------------------------------------------------
(* Quit *)

\* C33: once onExit has called cancel, the context of every waiter still in its select is
\* done, those of the latest runMain included, and no such waiter enters muezzin any
\* more: only the dispatches that were running go on.
C33_NoDispatchAfterQuit ==
    /\ [](pc = "exiting" =>
            \A i \in 1..Len(waiters) : waiters[i].st = "waiting" => DoneReady(waiters[i]))
    /\ [][pc = "exiting" =>
            \A i \in 1..Len(waiters) :
                waiters[i].st = "waiting" => waiters'[i].st \in {"waiting", "killed"}]_vars

----------------------------------------------------------------------------
(* config.json that is there *)

\* C34: a runMain call writes config.json only when the file is absent: a config.json
\* that exists is left as it is, whatever it holds, and is never replaced by the
\* defaults.
C34_ExistingConfigNeverOverwritten ==
    [][RunMainCalled /\ config_file.exists => config_file' = config_file]_vars

----------------------------------------------------------------------------
(* The timetable a schedule is planned from *)

\* C35: when a runMain call has planned and started waiters, the timetable it planned
\* from is prayer_times, dated the local day of the call, and prayer_times.json holds
\* that same record; and a runMain call that finds the program in that condition on the
\* same day, as after a fetch that was saved, does not enter the update of the timetable.
C35_PlannedFromTodaysSavedTimetable ==
    /\ [][PlanningStep /\ waiters' # waiters =>
            /\ prayer_times'.LastUpdate = FormatDate(clock, tz)
            /\ times_file' = FileOf(prayer_times')
            /\ plan'.times = prayer_times'.Times]_vars
    /\ [][\A o \in Planned(clock) :
            /\ RunMainStep(o)
            /\ times_file = FileOf(prayer_times)
            /\ prayer_times.LastUpdate = FormatDate(clock, tz)
            => o.fetch = "fresh" /\ times_file' = times_file]_vars

\* a second runMain of the day has started waiters from the timetable the first one
\* fetched and saved
C35_Witness ==
    /\ plan.status = "ok"
    /\ plan.gen > 1
    /\ prayer_times.Times \in SiteTables
    /\ times_file = FileOf(prayer_times)
    /\ prayer_times.LastUpdate = FormatDate(plan.now, tz)
    /\ plan.times = prayer_times.Times
    /\ \E i \in 1..Len(waiters) : waiters[i].ctx = plan.gen

====
